---- MODULE Spec2Model ----
(***************************************************************************)
(* File transfer batch runner: file_transfer.py (destination inferred from *)
(* the filename) and file_transfer_with_user_input.py (destination chosen  *)
(* at a prompt).                                                           *)
(*                                                                         *)
(* A Python string is a sequence of one-character strings, so that split,  *)
(* strip, upper, isalnum, slicing and substring tests are computed and not *)
(* assumed.  A destination path is the tuple of its segments below         *)
(* DESTINATION_ROOT.                                                       *)
(***************************************************************************)
EXTENDS Integers, Sequences, FiniteSets, TLC

VARIABLES
    variant,                \* "inferred" (file_transfer.py) or "explicit" (..._with_user_input.py)
    pc,                     \* position of main()
    prefix_file,            \* valid_prefixes.txt: "missing" or its sequence of lines
    valid_prefixes,         \* list returned by load_valid_prefixes
    source_kind,            \* what is at <base>/Files: "absent", "dir" or "notdir"
    source,                 \* entries of the source folder: set of [name, kind]
    listing,                \* rest of os.listdir(source_folder) the loop still has to visit
    dest_dirs,              \* directories that exist under DESTINATION_ROOT
    dest_files,             \* files that exist under DESTINATION_ROOT
    destination_subfolder,  \* explicit variant: DESTINATION_OPTIONS[selected_key]
    confirmed,              \* explicit variant: Enter was pressed after the selection
    moved_count,
    skipped_count,
    total_files_processed,
    tally,                  \* destination_counts / prefix_counts
    log,                    \* kinds of the messages written by log_message, in order
    exit_code,              \* 0 or 1 once the process has ended, -1 while it runs
    average_time,           \* average time per file, a fraction of 1/100 s; <<>> until computed
    last,                   \* what the latest loop iteration did (history)
    start,                  \* the filesystem when main() was entered (history)
    fn_pc,                  \* pure-function harness: "idle", "called", "returned"
    fn_in,                  \* pure-function harness: the arguments
    fn_out                  \* pure-function harness: the result

mainVars == <<variant, pc, prefix_file, valid_prefixes, source_kind, source, listing,
              dest_dirs, dest_files, destination_subfolder, moved_count, skipped_count,
              total_files_processed, tally, log, exit_code, average_time, confirmed, last, start>>
fnVars == <<fn_pc, fn_in, fn_out>>
vars == <<mainVars, fnVars>>

(***************************************************************************)
(* Bounds of the model.                                                    *)
(***************************************************************************)
MaxPad == 1         \* whitespace characters put on each side of a serial candidate
MaxLen == 11        \* longest serial candidate before padding
MaxSuffix == 10     \* colliding names name, name_1 .. name_<MaxSuffix> that may pre-exist
MaxFiles == 2       \* entries in the source folder
MaxKeywords == 2    \* table keys concatenated in the second token of a filename

(***************************************************************************)
(* Characters and the str methods the code uses.                           *)
(***************************************************************************)
\* The characters of the model are those of Latin-1 (U+0000 to U+00FF) and the
\* upper case of its letters.  The letters that str.upper() changes to one other
\* character, and that character at the same place of UpperLetters.
AsciiLower == <<"a", "b", "c", "d", "e", "f", "g", "h", "i", "j", "k", "l", "m",
               "n", "o", "p", "q", "r", "s", "t", "u", "v", "w", "x", "y", "z">>
AsciiUpper == <<"A", "B", "C", "D", "E", "F", "G", "H", "I", "J", "K", "L", "M",
               "N", "O", "P", "Q", "R", "S", "T", "U", "V", "W", "X", "Y", "Z">>
\* U+00E0 to U+00FE but for the division sign, the micro sign U+00B5 (its upper
\* case is the Greek capital mu, U+039C) and U+00FF (its upper case is U+0178).
Latin1Lower == <<"µ", "à", "á", "â", "ã", "ä", "å", "æ", "ç", "è", "é", "ê", "ë",
                "ì", "í", "î", "ï", "ð", "ñ", "ò", "ó", "ô", "õ", "ö", "ø", "ù",
                "ú", "û", "ü", "ý", "þ", "ÿ">>
Latin1Upper == <<"Μ", "À", "Á", "Â", "Ã", "Ä", "Å", "Æ", "Ç", "È", "É", "Ê", "Ë",
                "Ì", "Í", "Î", "Ï", "Ð", "Ñ", "Ò", "Ó", "Ô", "Õ", "Ö", "Ø", "Ù",
                "Ú", "Û", "Ü", "Ý", "Þ", "U+0178">>
LowerLetters == AsciiLower \o Latin1Lower
UpperLetters == AsciiUpper \o Latin1Upper
Digits == <<"0", "1", "2", "3", "4", "5", "6", "7", "8", "9">>

Range(f) == {f[i] : i \in DOMAIN f}

\* Letters and numeric characters of Latin-1 without an upper or lower case of
\* one character: sharp s, the ordinal indicators, superscript digits, fractions.
OtherAlnumChars == {"ª", "²", "³", "¹", "º", "¼", "½", "¾", "ß"}

\* str.isalnum on one character.
AlnumChars == Range(LowerLetters) \cup Range(UpperLetters) \cup Range(Digits)
              \cup OtherAlnumChars
IsAlnumChar(c) == c \in AlnumChars

\* The whitespace that has no escape in a string: U+000B, U+001C to U+001F,
\* U+0085 (next line) and U+00A0 (no-break space).
VT == ""
FS == ""
GS == ""
RS == ""
US == ""
NEL == ""
NBSP == " "

\* Characters str.strip() removes: those for which str.isspace() is true.
SpaceChars == {" ", "\t", "\n", "\r", "\f", VT, FS, GS, RS, US, NEL, NBSP}
IsSpaceChar(c) == c \in SpaceChars

\* str.upper on one character; the upper case of "ß" is the two characters "SS".
UpperOfLetter == [c \in Range(LowerLetters) |->
                    UpperLetters[CHOOSE i \in DOMAIN LowerLetters : LowerLetters[i] = c]]
UpperChar(c) ==
    IF c \in DOMAIN UpperOfLetter THEN <<UpperOfLetter[c]>>
    ELSE IF c = "ß" THEN <<"S", "S">> ELSE <<c>>

RECURSIVE str_upper(_)
str_upper(s) == IF s = <<>> THEN <<>> ELSE UpperChar(Head(s)) \o str_upper(Tail(s))

RECURSIVE str_lstrip(_)
str_lstrip(s) == IF s # <<>> /\ IsSpaceChar(Head(s)) THEN str_lstrip(Tail(s)) ELSE s

RECURSIVE str_rstrip(_)
str_rstrip(s) ==
    IF s # <<>> /\ IsSpaceChar(s[Len(s)]) THEN str_rstrip(SubSeq(s, 1, Len(s) - 1)) ELSE s

str_strip(s) == str_rstrip(str_lstrip(s))

\* str.isalnum: every character alphanumeric and at least one character.
str_isalnum(s) == s # <<>> /\ \A i \in DOMAIN s : IsAlnumChar(s[i])

\* s[:n]
Slice(s, n) == SubSeq(s, 1, IF Len(s) < n THEN Len(s) ELSE n)

\* key in s (substring containment)
Contains(s, key) ==
    \E i \in 0..(Len(s) - Len(key)) : SubSeq(s, i + 1, i + Len(key)) = key

\* str(k) for k >= 0
RECURSIVE str_int(_)
str_int(k) == IF k < 10 THEN <<Digits[k + 1]>> ELSE str_int(k \div 10) \o <<Digits[(k % 10) + 1]>>

\* re.split(r"[_\-]", s): the pieces between separators, empty pieces kept.
IsSeparator(c) == c \in {"_", "-"}

RECURSIVE re_split_from(_, _)
re_split_from(s, piece) ==
    IF s = <<>> THEN <<piece>>
    ELSE IF IsSeparator(Head(s)) THEN <<piece>> \o re_split_from(Tail(s), <<>>)
    ELSE re_split_from(Tail(s), Append(piece, Head(s)))

re_split(s) == re_split_from(s, <<>>)

\* os.path.splitext: split at the last dot, unless only dots precede it.
LastDot(s) == IF \E i \in DOMAIN s : s[i] = "."
              THEN CHOOSE i \in DOMAIN s : s[i] = "." /\ \A j \in (i + 1)..Len(s) : s[j] # "."
              ELSE 0

splitext(s) ==
    LET d == LastDot(s)
    IN  IF d > 0 /\ \E j \in 1..(d - 1) : s[j] # "."
        THEN <<SubSeq(s, 1, d - 1), SubSeq(s, d, Len(s))>>
        ELSE <<s, <<>>>>

(***************************************************************************)
(* is_valid_serial                                                         *)
(***************************************************************************)
SERIAL_LENGTH == 10
PREFIX_LENGTH == 6

\* The value None, told apart from every string.
None == <<"<None>">>

\* A plausible slip: the raw text is returned instead of the cleaned one.
is_valid_serial_raw(text) ==
    LET cleaned == str_upper(str_strip(text))
    IN  IF Len(cleaned) = SERIAL_LENGTH /\ str_isalnum(cleaned) THEN text ELSE None

\* A plausible slip: the length test accepts anything long enough.
is_valid_serial_atleast(text) ==
    LET cleaned == str_upper(str_strip(text))
    IN  IF Len(cleaned) >= SERIAL_LENGTH /\ str_isalnum(cleaned) THEN cleaned ELSE None

is_valid_serial(text) ==
    LET cleaned == str_upper(str_strip(text))
    IN  IF Len(cleaned) = SERIAL_LENGTH /\ str_isalnum(cleaned) THEN cleaned ELSE None

(***************************************************************************)
(* DESTINATION_MAPPING and extract_destination_from_filename               *)
(***************************************************************************)
K_QI == <<"Q", "I">>
K_PCAIncoming == <<"P", "C", "A", "I", "n", "c", "o", "m", "i", "n", "g">>
K_PreConformal == <<"P", "r", "e", "C", "o", "n", "f", "o", "r", "m", "a", "l">>
K_PostConformal == <<"P", "o", "s", "t", "C", "o", "n", "f", "o", "r", "m", "a", "l">>
K_Assembly == <<"A", "s", "s", "e", "m", "b", "l", "y">>
K_FinalOutgoing == <<"F", "i", "n", "a", "l", "O", "u", "t", "g", "o", "i", "n", "g">>
K_Misc == <<"M", "i", "s", "c">>
K_PreVibration == <<"P", "r", "e", "V", "i", "b", "r", "a", "t", "i", "o", "n">>
K_PostVibration == <<"P", "o", "s", "t", "V", "i", "b", "r", "a", "t", "i", "o", "n">>

\* The dict in insertion order: <<key, destination>>.
DESTINATION_MAPPING == <<
    <<K_QI, "0__QI">>,
    <<K_PCAIncoming, "1__PCA Incoming">>,
    <<K_PreConformal, "2__Pre-Conformal Coating">>,
    <<K_PostConformal, "3__Post-Conformal Coating">>,
    <<K_Assembly, "4__Assembly">>,
    <<K_FinalOutgoing, "5__Final Outgoing">>,
    <<K_Misc, "6__Misc">>,
    <<K_PreVibration, "7__Pre-Vibration & Shock Testing">>,
    <<K_PostVibration, "8__Post-Vibration & Shock Testing">> >>

DEFAULT_DESTINATION == "6__Misc"

\* The menu of the explicit variant: key -> subfolder.
DESTINATION_OPTIONS ==
    [k \in {"0", "1", "2", "3", "4", "5", "6", "7", "8"} |->
        DESTINATION_MAPPING[(CHOOSE i \in DOMAIN Digits : Digits[i] = k)][2]]

\* for key, destination in DESTINATION_MAPPING.items(): if key in keyword: return destination
RECURSIVE mapping_lookup(_, _)
mapping_lookup(keyword, i) ==
    IF i > Len(DESTINATION_MAPPING) THEN DEFAULT_DESTINATION
    ELSE IF Contains(keyword, DESTINATION_MAPPING[i][1]) THEN DESTINATION_MAPPING[i][2]
    ELSE mapping_lookup(keyword, i + 1)

\* A plausible slip: the keyword must equal the key instead of containing it.
RECURSIVE mapping_lookup_exact(_, _)
mapping_lookup_exact(keyword, i) ==
    IF i > Len(DESTINATION_MAPPING) THEN DEFAULT_DESTINATION
    ELSE IF keyword = DESTINATION_MAPPING[i][1] THEN DESTINATION_MAPPING[i][2]
    ELSE mapping_lookup_exact(keyword, i + 1)

extract_destination_from_filename_exact(filename) ==
    LET parts == re_split(filename)
    IN  IF Len(parts) >= 2 THEN mapping_lookup_exact(str_strip(parts[2]), 1)
        ELSE DEFAULT_DESTINATION

extract_destination_from_filename(filename) ==
    LET parts == re_split(filename)
    IN  IF Len(parts) >= 2 THEN mapping_lookup(str_strip(parts[2]), 1)
        ELSE DEFAULT_DESTINATION

(***************************************************************************)
(* get_unique_filename: exists is the set of paths os.path.exists accepts. *)
(***************************************************************************)
path_join(folder, name) == Append(folder, name)

RECURSIVE unique_loop(_, _, _, _, _, _)
unique_loop(exists, folder, base, ext, unique_path, counter) ==
    IF unique_path \in exists
    THEN unique_loop(exists, folder, base, ext,
                     path_join(folder, base \o <<"_">> \o str_int(counter) \o ext),
                     counter + 1)
    ELSE unique_path

\* A plausible slip: the existence test is forgotten for the suffixed names.
get_unique_filename_once(exists, folder, filename) ==
    LET parts == splitext(filename)
    IN  IF path_join(folder, filename) \in exists
        THEN path_join(folder, parts[1] \o <<"_">> \o str_int(1) \o parts[2])
        ELSE path_join(folder, filename)

get_unique_filename(exists, folder, filename) ==
    LET parts == splitext(filename)
    IN  unique_loop(exists, folder, parts[1], parts[2], path_join(folder, filename), 1)

(***************************************************************************)
(* validate_serial_and_prefix: <<is_valid, message kind, cleaned_serial>>  *)
(***************************************************************************)
\* A plausible slip: the prefix test is left out.
validate_serial_and_prefix_noprefix(raw_serial, prefixes) ==
    LET cleaned_serial == is_valid_serial(raw_serial)
    IN  IF cleaned_serial = None THEN <<FALSE, "invalid_serial", None>>
        ELSE <<TRUE, "", cleaned_serial>>

validate_serial_and_prefix(raw_serial, prefixes) ==
    LET cleaned_serial == is_valid_serial(raw_serial)
    IN  IF cleaned_serial = None THEN <<FALSE, "invalid_serial", None>>
        ELSE IF Slice(cleaned_serial, PREFIX_LENGTH) \notin Range(prefixes)
             THEN <<FALSE, "invalid_prefix", None>>
             ELSE <<TRUE, "", cleaned_serial>>

(***************************************************************************)
(* load_valid_prefixes: the lines of the file, stripped and uppercased,    *)
(* blank lines dropped.                                                    *)
(***************************************************************************)
RECURSIVE load_lines(_)
load_lines(lines) ==
    IF lines = <<>> THEN <<>>
    ELSE IF str_strip(Head(lines)) # <<>>
         THEN <<str_upper(str_strip(Head(lines)))>> \o load_lines(Tail(lines))
         ELSE load_lines(Tail(lines))

\* The exception raised ("NotFound", "Empty", or "" for none) and the list returned.
load_valid_prefixes(file) ==
    IF file = "missing" THEN [raised |-> "NotFound", prefixes |-> <<>>]
    ELSE IF load_lines(file) = <<>> THEN [raised |-> "Empty", prefixes |-> <<>>]
    ELSE [raised |-> "", prefixes |-> load_lines(file)]

(***************************************************************************)
(* move_file                                                               *)
(*                                                                         *)
(* fs is the filesystem and the global counters before the call:           *)
(*   [dirs, files, source, moved_count, skipped_count].                    *)
(* env is what the operating system does with the two calls that can fail: *)
(*   mk   "ok" or "error": os.makedirs(target_folder);                     *)
(*   made how many leading segments of target_folder exist when makedirs   *)
(*        raises (it creates the missing parents first);                   *)
(*   mv   "ok", "error" (nothing copied) or "error_copied" (shutil.move    *)
(*        copied to the destination and then failed to remove the source). *)
(* The result is the state after the call, the messages logged, and        *)
(* whether an exception left the function.                                 *)
(***************************************************************************)
\* board_prefix = serial_number[:6]; os.path.join(DESTINATION_ROOT, board_prefix, serial_number, sub)
target_folder_swapped(serial_number, sub) ==
    <<serial_number, Slice(serial_number, PREFIX_LENGTH), sub>>

target_folder_of(serial_number, sub) ==
    <<Slice(serial_number, PREFIX_LENGTH), serial_number, sub>>

PathPrefixes(path, n) == {SubSeq(path, 1, k) : k \in 1..n}

Min(a, b) == IF a < b THEN a ELSE b

\* A plausible slip: the OSError of os.makedirs is not caught.
move_file_uncaught(fs, serial_number, filename, sub, env) ==
    LET target_folder == target_folder_of(serial_number, sub)
        exists == fs.dirs \cup fs.files
        mkdir == target_folder \notin exists
        dirs1 == IF mkdir /\ env.mk = "ok" THEN fs.dirs \cup PathPrefixes(target_folder, 3) ELSE fs.dirs
        destination_path == get_unique_filename(dirs1 \cup fs.files, target_folder, filename)
    IN  IF mkdir /\ env.mk = "error"
        THEN [dirs |-> fs.dirs \cup PathPrefixes(target_folder, Min(env.made, 2)),
              files |-> fs.files, source |-> fs.source,
              moved_count |-> fs.moved_count, skipped_count |-> fs.skipped_count,
              log |-> <<>>, outcome |-> "mkdir_failed",
              dest_path |-> <<>>, raised |-> TRUE]
        ELSE [dirs |-> dirs1, files |-> fs.files \cup {destination_path},
              source |-> fs.source \ {[name |-> filename, kind |-> "file"]},
              moved_count |-> fs.moved_count + 1, skipped_count |-> fs.skipped_count,
              log |-> (IF mkdir THEN <<"created_folder">> ELSE <<>>) \o <<"moved">>,
              outcome |-> "moved", dest_path |-> destination_path, raised |-> FALSE]

\* A plausible slip: a failed shutil.move is counted as moved.
move_file_miscounted(fs, serial_number, filename, sub, env) ==
    LET target_folder == target_folder_of(serial_number, sub)
        exists == fs.dirs \cup fs.files
        mkdir == target_folder \notin exists
        dirs1 == IF mkdir /\ env.mk = "ok" THEN fs.dirs \cup PathPrefixes(target_folder, 3) ELSE fs.dirs
        destination_path == get_unique_filename(dirs1 \cup fs.files, target_folder, filename)
    IN  IF mkdir /\ env.mk = "error"
        THEN [dirs |-> fs.dirs \cup PathPrefixes(target_folder, Min(env.made, 2)),
              files |-> fs.files, source |-> fs.source,
              moved_count |-> fs.moved_count, skipped_count |-> fs.skipped_count + 1,
              log |-> <<"warn_mkdir">>, outcome |-> "mkdir_failed",
              dest_path |-> <<>>, raised |-> FALSE]
        ELSE IF env.mv = "ok"
        THEN [dirs |-> dirs1, files |-> fs.files \cup {destination_path},
              source |-> fs.source \ {[name |-> filename, kind |-> "file"]},
              moved_count |-> fs.moved_count + 1, skipped_count |-> fs.skipped_count,
              log |-> (IF mkdir THEN <<"created_folder">> ELSE <<>>) \o <<"moved">>,
              outcome |-> "moved", dest_path |-> destination_path, raised |-> FALSE]
        ELSE [dirs |-> dirs1,
              files |-> IF env.mv = "error_copied" THEN fs.files \cup {destination_path}
                        ELSE fs.files,
              source |-> fs.source,
              moved_count |-> fs.moved_count + 1, skipped_count |-> fs.skipped_count,
              log |-> (IF mkdir THEN <<"created_folder">> ELSE <<>>) \o <<"warn_move">>,
              outcome |-> "move_failed", dest_path |-> destination_path, raised |-> FALSE]

\* A plausible slip: the failed os.makedirs returns without counting the file.
move_file_mkdir_uncounted(fs, serial_number, filename, sub, env) ==
    LET target_folder == target_folder_of(serial_number, sub)
        exists == fs.dirs \cup fs.files
        mkdir == target_folder \notin exists
        dirs1 == IF mkdir /\ env.mk = "ok" THEN fs.dirs \cup PathPrefixes(target_folder, 3) ELSE fs.dirs
        destination_path == get_unique_filename(dirs1 \cup fs.files, target_folder, filename)
    IN  IF mkdir /\ env.mk = "error"
        THEN [dirs |-> fs.dirs \cup PathPrefixes(target_folder, Min(env.made, 2)),
              files |-> fs.files, source |-> fs.source,
              moved_count |-> fs.moved_count, skipped_count |-> fs.skipped_count,
              log |-> <<"warn_mkdir">>, outcome |-> "mkdir_failed",
              dest_path |-> <<>>, raised |-> FALSE]
        ELSE IF env.mv = "ok"
        THEN [dirs |-> dirs1, files |-> fs.files \cup {destination_path},
              source |-> fs.source \ {[name |-> filename, kind |-> "file"]},
              moved_count |-> fs.moved_count + 1, skipped_count |-> fs.skipped_count,
              log |-> (IF mkdir THEN <<"created_folder">> ELSE <<>>) \o <<"moved">>,
              outcome |-> "moved", dest_path |-> destination_path, raised |-> FALSE]
        ELSE [dirs |-> dirs1,
              files |-> IF env.mv = "error_copied" THEN fs.files \cup {destination_path}
                        ELSE fs.files,
              source |-> fs.source,
              moved_count |-> fs.moved_count, skipped_count |-> fs.skipped_count + 1,
              log |-> (IF mkdir THEN <<"created_folder">> ELSE <<>>) \o <<"warn_move">>,
              outcome |-> "move_failed", dest_path |-> destination_path, raised |-> FALSE]

\* A plausible slip: the file is moved to target_folder/filename without the
\* search for a free name.
move_file_overwrite(fs, serial_number, filename, sub, env) ==
    LET target_folder == target_folder_of(serial_number, sub)
        exists == fs.dirs \cup fs.files
        mkdir == target_folder \notin exists
        dirs1 == IF mkdir /\ env.mk = "ok" THEN fs.dirs \cup PathPrefixes(target_folder, 3) ELSE fs.dirs
        destination_path == path_join(target_folder, filename)
    IN  IF mkdir /\ env.mk = "error"
        THEN [dirs |-> fs.dirs \cup PathPrefixes(target_folder, Min(env.made, 2)),
              files |-> fs.files, source |-> fs.source,
              moved_count |-> fs.moved_count, skipped_count |-> fs.skipped_count + 1,
              log |-> <<"warn_mkdir">>, outcome |-> "mkdir_failed",
              dest_path |-> <<>>, raised |-> FALSE]
        ELSE IF env.mv = "ok"
        THEN [dirs |-> dirs1, files |-> fs.files \cup {destination_path},
              source |-> fs.source \ {[name |-> filename, kind |-> "file"]},
              moved_count |-> fs.moved_count + 1, skipped_count |-> fs.skipped_count,
              log |-> (IF mkdir THEN <<"created_folder">> ELSE <<>>) \o <<"moved">>,
              outcome |-> "moved", dest_path |-> destination_path, raised |-> FALSE]
        ELSE [dirs |-> dirs1,
              files |-> IF env.mv = "error_copied" THEN fs.files \cup {destination_path}
                        ELSE fs.files,
              source |-> fs.source,
              moved_count |-> fs.moved_count, skipped_count |-> fs.skipped_count + 1,
              log |-> (IF mkdir THEN <<"created_folder">> ELSE <<>>) \o <<"warn_move">>,
              outcome |-> "move_failed", dest_path |-> destination_path, raised |-> FALSE]

move_file(fs, serial_number, filename, sub, env) ==
    LET target_folder == target_folder_of(serial_number, sub)
        exists == fs.dirs \cup fs.files
        \* if not os.path.exists(target_folder)
        mkdir == target_folder \notin exists
        dirs1 == IF mkdir /\ env.mk = "ok" THEN fs.dirs \cup PathPrefixes(target_folder, 3) ELSE fs.dirs
        destination_path == get_unique_filename(dirs1 \cup fs.files, target_folder, filename)
    IN  IF mkdir /\ env.mk = "error"
        THEN \* except OSError: skipped_count += 1; return
             [dirs |-> fs.dirs \cup PathPrefixes(target_folder, Min(env.made, 2)),
              files |-> fs.files, source |-> fs.source,
              moved_count |-> fs.moved_count, skipped_count |-> fs.skipped_count + 1,
              log |-> <<"warn_mkdir">>, outcome |-> "mkdir_failed",
              dest_path |-> <<>>, raised |-> FALSE]
        ELSE IF env.mv = "ok"
        THEN \* shutil.move succeeded: moved_count += 1
             [dirs |-> dirs1, files |-> fs.files \cup {destination_path},
              source |-> fs.source \ {[name |-> filename, kind |-> "file"]},
              moved_count |-> fs.moved_count + 1, skipped_count |-> fs.skipped_count,
              log |-> (IF mkdir THEN <<"created_folder">> ELSE <<>>) \o <<"moved">>,
              outcome |-> "moved", dest_path |-> destination_path, raised |-> FALSE]
        ELSE \* except Exception: skipped_count += 1
             [dirs |-> dirs1,
              files |-> IF env.mv = "error_copied" THEN fs.files \cup {destination_path}
                        ELSE fs.files,
              source |-> fs.source,
              moved_count |-> fs.moved_count, skipped_count |-> fs.skipped_count + 1,
              log |-> (IF mkdir THEN <<"created_folder">> ELSE <<>>) \o <<"warn_move">>,
              outcome |-> "move_failed", dest_path |-> destination_path, raised |-> FALSE]

\* makedirs succeeds and the move has one of its outcomes, or makedirs raises.
Envs == [mk : {"ok"}, made : {3}, mv : {"ok", "error", "error_copied"}]
        \cup [mk : {"error"}, made : 0..2, mv : {"ok"}]

(***************************************************************************)
(* main(): the state it starts in.                                         *)
(***************************************************************************)
S_AB12345678 == <<"A", "B", "1", "2", "3", "4", "5", "6", "7", "8">>
S_Unknown == <<"U", "n", "k", "n", "o", "w", "n">>
S_misc == <<"m", "i", "s", "c">>
S_IMG01 == <<"I", "M", "G", "0", "1">>
S_jpg == <<".", "j", "p", "g">>
S_part == <<"p", "a", "r", "t">>
S_short == <<"s", "h", "o", "r", "t">>
S_dir == <<"d", "i", "r">>
S_png == <<".", "p", "n", "g">>
S_ab12345678 == <<"a", "b", "1", "2", "3", "4", "5", "6", "7", "8">>
S_ez99990001 == <<"é", "z", "9", "9", "9", "9", "0", "0", "0", "1">>
P_AB1234 == <<"A", "B", "1", "2", "3", "4">>
P_ez9999 == <<"é", "z", "9", "9", "9", "9">>

F_Example == S_AB12345678 \o <<"_">> \o K_FinalOutgoing \o <<"_">> \o S_IMG01 \o S_jpg
F_Short == S_short \o <<"_">> \o K_Misc \o S_jpg
F_Unknown == S_AB12345678 \o <<"_">> \o S_Unknown \o <<"_">> \o S_part \o S_jpg
F_NoSep == S_AB12345678
F_NoSepExt == S_AB12345678 \o S_jpg
F_LowerDash == <<" ">> \o S_ab12345678 \o <<NBSP, "-">> \o K_QI \o <<"-", "1">> \o S_jpg
F_OtherPrefix == S_ez99990001 \o <<"_">> \o K_Assembly \o S_png
F_SubDir == S_AB12345678 \o <<"_">> \o K_QI \o <<"_">> \o S_dir
F_Example_1 == S_AB12345678 \o <<"_">> \o K_FinalOutgoing \o <<"_">> \o S_IMG01 \o <<"_", "1">> \o S_jpg

\* What may lie in the source folder.
SourcePool ==
    {[name |-> n, kind |-> "file"] :
        n \in {F_Example, F_Short, F_Unknown, F_NoSep, F_NoSepExt, F_LowerDash,
               F_OtherPrefix}}
    \cup {[name |-> F_SubDir, kind |-> "dir"]}

\* What valid_prefixes.txt may hold.
PrefixFiles ==
    {"missing",
     <<>>,
     << <<" ">>, <<>> >>,
     << <<"a", "b", "1", "2", "3", "4", NBSP>>, <<>> >>,
     <<P_AB1234, P_ez9999>>}

\* What may already exist under the destination root.
ExampleFolder == <<P_AB1234, S_AB12345678, "5__Final Outgoing">>

DestinationTrees ==
    {[dirs |-> {}, files |-> {}],
     [dirs |-> {<<P_AB1234>>}, files |-> {}],
     [dirs |-> PathPrefixes(ExampleFolder, 3),
      files |-> {path_join(ExampleFolder, F_Example), path_join(ExampleFolder, F_Example_1)}]}

\* What input() gives when the console input has ended: it raises EOFError.
EndOfInput == <<"<EOF>">>

\* What the user may type at the destination prompt.
UserInputs == {<<"5">>, <<" ", "5", " ">>, <<"9">>, <<"5", "5">>, <<>>, <<"q">>, <<" ", "Q">>}

NoLast == [filename |-> <<>>, kind |-> "none", extracted |-> <<>>, called |-> FALSE,
           outcome |-> "none", serial |-> None, category |-> "none", dest_path |-> <<>>,
           before |-> [dirs |-> {}, files |-> {}, source |-> {},
                       moved_count |-> 0, skipped_count |-> 0]]

Init ==
    /\ variant \in {"inferred", "explicit"}
    /\ pc = "Init"
    /\ prefix_file \in PrefixFiles
    /\ valid_prefixes = <<>>
    /\ source_kind \in {"absent", "dir", "notdir"}
    /\ source \in {S \in SUBSET SourcePool : Cardinality(S) <= MaxFiles}
    /\ source_kind # "dir" => source = {}
    /\ listing = <<>>
    /\ \E tree \in DestinationTrees : dest_dirs = tree.dirs /\ dest_files = tree.files
    /\ destination_subfolder = "none"
    /\ confirmed = FALSE
    /\ moved_count = 0 /\ skipped_count = 0 /\ total_files_processed = 0
    /\ tally = <<>>
    /\ log = <<>>
    /\ exit_code = -1
    /\ average_time = <<>>
    /\ last = NoLast
    /\ start = [dirs |-> dest_dirs, files |-> dest_files, source |-> source]
    /\ fn_pc = "idle" /\ fn_in = <<>> /\ fn_out = <<>>

(***************************************************************************)
(* main(): its steps.                                                      *)
(***************************************************************************)
\* valid_prefixes = load_valid_prefixes(); except (FileNotFoundError, ValueError): sys.exit(1)
LoadPrefixes ==
    /\ pc = "Init"
    /\ LET loaded == load_valid_prefixes(prefix_file)
       IN  IF loaded.raised # ""
           THEN /\ log' = Append(log, "warn_prefix_file")
                /\ exit_code' = 1
                /\ pc' = "Aborted"
                /\ UNCHANGED valid_prefixes
           ELSE /\ valid_prefixes' = loaded.prefixes
                /\ pc' = "PrefixLoaded"
                /\ UNCHANGED <<log, exit_code>>
    /\ UNCHANGED <<variant, prefix_file, source_kind, source, listing, dest_dirs, dest_files,
                   destination_subfolder, moved_count, skipped_count, total_files_processed,
                   tally, last, start, average_time,
                   confirmed, fnVars>>

\* Where the explicit variant reads the destination from the console.
AtPrompt_per_file == variant = "explicit" /\ pc \in {"PrefixLoaded", "PerFile"}

AtPrompt == variant = "explicit" /\ pc = "PrefixLoaded"

\* One pass of: while selected_key not in DESTINATION_OPTIONS: user_input = input(...).strip()
Prompt ==
    /\ AtPrompt
    /\ \E typed \in UserInputs \cup {EndOfInput} :
         LET user_input == str_strip(typed)
         IN  IF typed = EndOfInput
             THEN \* input() raises EOFError, which nothing catches
                  /\ exit_code' = 1
                  /\ pc' = "Exception"
                  /\ UNCHANGED destination_subfolder
             ELSE IF str_upper(user_input) = <<"Q">>
             THEN \* user_input.lower() == 'q': sys.exit(0)
                  /\ exit_code' = 0
                  /\ pc' = "Aborted"
                  /\ UNCHANGED destination_subfolder
             ELSE IF Len(user_input) = 1 /\ user_input[1] \in DOMAIN DESTINATION_OPTIONS
             THEN /\ destination_subfolder' = DESTINATION_OPTIONS[user_input[1]]
                  /\ pc' = "DestinationSelected"
                  /\ UNCHANGED exit_code
             ELSE \* "Invalid input.": asked again
                  UNCHANGED <<destination_subfolder, pc, exit_code>>
    /\ UNCHANGED <<variant, prefix_file, valid_prefixes, source_kind, source, listing,
                   dest_dirs, dest_files, moved_count, skipped_count, total_files_processed,
                   tally, log, last, start, average_time,
                   confirmed, fnVars>>

\* input("You selected: ... press Enter to begin...") returns or raises: main()
\* waits there until the user presses Enter, whatever was typed before it, or
\* until the console input ends (EOFError, which nothing catches).
PressEnter ==
    /\ variant = "explicit" /\ pc = "DestinationSelected" /\ ~confirmed
    /\ \E answer \in {"line", "end of input"} :
         IF answer = "line"
         THEN confirmed' = TRUE /\ UNCHANGED <<pc, exit_code>>
         ELSE pc' = "Exception" /\ exit_code' = 1 /\ UNCHANGED confirmed
    /\ UNCHANGED <<variant, prefix_file, valid_prefixes, source_kind, source, listing,
                   dest_dirs, dest_files, destination_subfolder, moved_count, skipped_count,
                   total_files_processed, tally, log, average_time, last, start,
                   fnVars>>

\* The source folder is made if absent, refused if it is not a directory; then the
\* start banner is logged and the counters of the run are reset.  (The explicit
\* variant tests os.path.isdir once more; after the first test that one cannot fail.)
SetupSource ==
    /\ \/ variant = "inferred" /\ pc = "PrefixLoaded"
       \/ variant = "explicit" /\ pc = "DestinationSelected" /\ confirmed
    /\ \E makedirs \in {"ok", "error"} :
         IF source_kind = "absent" /\ makedirs = "error"
         THEN /\ log' = Append(log, "error_files_folder")
              /\ exit_code' = 1
              /\ pc' = "Aborted"
              /\ UNCHANGED <<source_kind, total_files_processed, tally>>
         ELSE IF source_kind = "notdir"
         THEN /\ log' = Append(log, "warn_not_a_directory")
              /\ exit_code' = 1
              /\ pc' = "Aborted"
              /\ UNCHANGED <<source_kind, total_files_processed, tally>>
         ELSE /\ source_kind' = "dir"
              /\ log' = log \o (IF source_kind = "absent" THEN <<"files_folder_created">> ELSE <<>>)
                            \o <<"started">>
              /\ total_files_processed' = 0
              /\ tally' = <<>>
              /\ pc' = "Scanning"
              /\ UNCHANGED exit_code
    /\ UNCHANGED <<variant, prefix_file, valid_prefixes, source, listing, dest_dirs, dest_files,
                   destination_subfolder, moved_count, skipped_count, last, start, average_time,
                   confirmed, fnVars>>

\* The sequences that hold every element of S once.
Orderings(S) ==
    {q \in [1..Cardinality(S) -> S] : \A i, j \in 1..Cardinality(S) : q[i] = q[j] => i = j}

\* for filename in os.listdir(source_folder): the order is the operating system's
ListSource ==
    /\ pc = "Scanning"
    /\ listing' \in Orderings({e.name : e \in source})
    /\ pc' = "PerFile"
    /\ UNCHANGED <<variant, prefix_file, valid_prefixes, source_kind, source, dest_dirs,
                   dest_files, destination_subfolder, moved_count, skipped_count,
                   total_files_processed, tally, log, exit_code, last, start, average_time,
                   confirmed, fnVars>>

\* extracted_serial = re.split(r"[_\-]", filename)[0]
\* A plausible slip: no separator in the name gives the empty token.
extract_serial_empty(filename) ==
    IF Len(re_split(filename)) >= 2 THEN re_split(filename)[1] ELSE <<>>

extract_serial(filename) == re_split(filename)[1]

IsFile(filename) == [name |-> filename, kind |-> "file"] \in source

Before == [dirs |-> dest_dirs, files |-> dest_files, source |-> source,
           moved_count |-> moved_count, skipped_count |-> skipped_count]

\* A plausible slip: the entry is set to 1 at every file, not only at the first.
Bump_reset(counts, key) ==
    [k \in DOMAIN counts \cup {key} |-> IF k = key THEN 1 ELSE counts[k]]

\* if key not in counts: counts[key] = 0
\* counts[key] += 1
Bump(counts, key) ==
    [k \in DOMAIN counts \cup {key} |->
        IF k \in DOMAIN counts THEN counts[k] + (IF k = key THEN 1 ELSE 0) ELSE 1]

\* Loop body for an entry that is not a regular file: os.path.isfile is false.
SkipNonFile ==
    /\ pc = "PerFile" /\ listing # <<>>
    /\ ~IsFile(Head(listing))
    /\ listing' = Tail(listing)
    /\ last' = [NoLast EXCEPT !.filename = Head(listing), !.kind = "dir",
                              !.outcome = "not_a_file", !.before = Before]
    /\ UNCHANGED <<variant, pc, prefix_file, valid_prefixes, source_kind, source, dest_dirs,
                   dest_files, destination_subfolder, moved_count, skipped_count,
                   total_files_processed, tally, log, exit_code, start, average_time,
                   confirmed, fnVars>>

\* Loop body for a regular file whose serial or prefix is refused.
SkipInvalid ==
    /\ pc = "PerFile" /\ listing # <<>>
    /\ IsFile(Head(listing))
    /\ LET filename == Head(listing)
           extracted_serial == extract_serial(filename)
           checked == validate_serial_and_prefix(extracted_serial, valid_prefixes)
       IN  /\ ~checked[1]
           /\ total_files_processed' = total_files_processed + 1
           /\ skipped_count' = skipped_count + 1
           /\ log' = Append(log, "warn_" \o checked[2])
           /\ last' = [NoLast EXCEPT !.filename = filename, !.kind = "file",
                                     !.extracted = extracted_serial,
                                     !.outcome = checked[2], !.before = Before]
    /\ listing' = Tail(listing)
    /\ UNCHANGED <<variant, pc, prefix_file, valid_prefixes, source_kind, source, dest_dirs,
                   dest_files, destination_subfolder, moved_count, tally, exit_code, start,
                   average_time,
                   confirmed, fnVars>>

\* Loop body for a regular file that passes validation: the tally is kept and
\* move_file is called.
MoveFile ==
    /\ pc = "PerFile" /\ listing # <<>>
    /\ IsFile(Head(listing))
    /\ LET filename == Head(listing)
           extracted_serial == extract_serial(filename)
           checked == validate_serial_and_prefix(extracted_serial, valid_prefixes)
           serial == checked[3]
           sub == IF variant = "inferred" THEN extract_destination_from_filename(filename)
                  ELSE destination_subfolder
           key == IF variant = "inferred" THEN sub ELSE Slice(serial, PREFIX_LENGTH)
       IN  /\ checked[1]
           /\ total_files_processed' = total_files_processed + 1
           /\ tally' = Bump(tally, key)
           /\ \E env \in Envs :
                LET r == move_file(Before, serial, filename, sub, env)
                IN  /\ dest_dirs' = r.dirs
                    /\ dest_files' = r.files
                    /\ source' = r.source
                    /\ moved_count' = r.moved_count
                    /\ skipped_count' = r.skipped_count
                    /\ log' = log \o r.log
                    /\ pc' = IF r.raised THEN "Crashed" ELSE "PerFile"
                    /\ last' = [NoLast EXCEPT !.filename = filename, !.kind = "file",
                                              !.extracted = extracted_serial,
                                              !.called = TRUE, !.outcome = r.outcome,
                                              !.serial = serial, !.category = sub,
                                              !.dest_path = r.dest_path, !.before = Before]
    /\ listing' = Tail(listing)
    /\ UNCHANGED <<variant, prefix_file, valid_prefixes, source_kind, destination_subfolder,
                   exit_code, start, average_time,
                   confirmed, fnVars>>

\* A plausible slip: while entries remain in the source folder the folder is
\* listed and walked again.
FinishLoop_rescan ==
    /\ pc = "PerFile" /\ listing = <<>>
    /\ pc' = IF source # {} THEN "Scanning" ELSE "Summarizing"
    /\ UNCHANGED <<variant, prefix_file, valid_prefixes, source_kind, source, listing,
                   dest_dirs, dest_files, destination_subfolder, moved_count, skipped_count,
                   total_files_processed, tally, log, exit_code, average_time, last, start,
                   confirmed, fnVars>>

\* os.listdir's list is used up: the for loop is over.
FinishLoop ==
    /\ pc = "PerFile" /\ listing = <<>>
    /\ pc' = "Summarizing"
    /\ UNCHANGED <<variant, prefix_file, valid_prefixes, source_kind, source, listing,
                   dest_dirs, dest_files, destination_subfolder, moved_count, skipped_count,
                   total_files_processed, tally, log, exit_code, average_time, last, start,
                   confirmed, fnVars>>

\* end_time - start_time, in 1/100 s.  The wall clock may give any time; the
\* model follows a run too short to measure, one of 2.5 s and one of 6 s.
ElapsedTimes == {0, 250, 600}

RECURSIVE gcd(_, _)
gcd(a, b) == IF b = 0 THEN a ELSE gcd(b, a % b)

\* The quotient a / b of the float division, kept exact: the fraction
\* <<numerator, denominator>> in lowest terms.
Quotient(a, b) == <<a \div gcd(a, b), b \div gcd(a, b)>>

\* The time calculation, then the summary block and the breakdown table are
\* logged and main() returns:
\* average_time = (end_time - start_time) / total_files_processed
\*                if total_files_processed > 0 else 0
\* Run as a built executable (sys.frozen) the explicit variant then asks for
\* Enter before it exits: the process still runs, exit_code stays -1.
Summarize ==
    /\ pc = "Summarizing"
    /\ \E elapsed \in ElapsedTimes :
         average_time' = IF total_files_processed > 0
                         THEN Quotient(elapsed, total_files_processed)
                         ELSE <<0, 1>>
    /\ log' = log \o <<"summary">> \o (IF DOMAIN tally # {} THEN <<"breakdown">> ELSE <<>>)
                  \o <<"completed">>
    /\ \E frozen \in BOOLEAN :
         exit_code' = IF variant = "explicit" /\ frozen THEN -1 ELSE 0
    /\ pc' = "Done"
    /\ UNCHANGED <<variant, prefix_file, valid_prefixes, source_kind, source, listing,
                   dest_dirs, dest_files, destination_subfolder, moved_count, skipped_count,
                   total_files_processed, tally, last, start,
                   confirmed, fnVars>>

\* if getattr(sys, 'frozen', False): print("Press Enter to exit..."); input()
\* The executable waits for Enter and exits; at the end of the console input
\* input() raises EOFError, which nothing catches.
PressEnterToExit ==
    /\ variant = "explicit" /\ pc = "Done" /\ exit_code = -1
    /\ \E answer \in {"line", "end of input"} :
         IF answer = "line"
         THEN exit_code' = 0 /\ UNCHANGED pc
         ELSE exit_code' = 1 /\ pc' = "Exception"
    /\ UNCHANGED <<variant, prefix_file, valid_prefixes, source_kind, source, listing,
                   dest_dirs, dest_files, destination_subfolder, moved_count, skipped_count,
                   total_files_processed, tally, log, average_time, last, start,
                   confirmed, fnVars>>

Next ==
    \/ LoadPrefixes
    \/ Prompt
    \/ PressEnter
    \/ SetupSource
    \/ ListSource
    \/ SkipNonFile
    \/ SkipInvalid
    \/ MoveFile
    \/ FinishLoop
    \/ Summarize
    \/ PressEnterToExit

Spec == Init /\ [][Next]_vars

\* One pass of the loop body, whatever it does with the entry: the entry leaves
\* the rest of the listing and the loop goes on.  A step of SkipNonFile, SkipInvalid or MoveFile is
\* such a step, and one of the three can be taken whenever an entry is left.
LoopBody == pc = "PerFile" /\ listing # <<>> /\ listing' = Tail(listing) /\ pc' = pc

\* The steps of main() outside the loop body, but for the wait for Enter.
Sequential == LoadPrefixes \/ Prompt \/ SetupSource \/ ListSource \/ FinishLoop \/ Summarize

\* main() is one sequential thread: a step that can be taken is taken.  Every
\* such step that changes the state changes pc or listing.  The prompt's step
\* that changes the state is an answer that is a listed key or 'q', so fairness
\* on it says that the user gives such an answer in the end.  Nothing is said
\* of PressEnter: the user may leave the program waiting.
FairSpec == Spec /\ WF_<<pc, listing>>(Sequential) /\ WF_<<pc, listing>>(LoopBody)

(***************************************************************************)
(* Harness for the pure functions: the arguments are drawn in the initial  *)
(* state, one action calls the function.  main() does not run.             *)
(***************************************************************************)
MainIdle ==
    /\ variant = "none" /\ pc = "idle" /\ prefix_file = "missing" /\ valid_prefixes = <<>>
    /\ source_kind = "absent" /\ source = {} /\ listing = <<>>
    /\ dest_dirs = {} /\ dest_files = {} /\ destination_subfolder = "none"
    /\ moved_count = 0 /\ skipped_count = 0 /\ total_files_processed = 0
    /\ tally = <<>> /\ log = <<>> /\ exit_code = -1 /\ average_time = <<>>
    /\ confirmed = FALSE
    /\ last = NoLast /\ start = [dirs |-> {}, files |-> {}, source |-> {}]

\* Strings of at most n whitespace characters.
RECURSIVE Pads(_)
Pads(n) == IF n = 0 THEN {<<>>}
           ELSE Pads(n - 1) \cup {Append(p, c) : p \in Pads(n - 1), c \in {" ", "\n", NBSP}}

BasePattern == <<"a", "B", "7">>
SubstChars == {"z", "Q", "0", "ß", "é", "µ", "²", " ", NBSP, "!", "_"}

\* n characters of the base pattern, the one at pos (if any) replaced by ch.
Body(n, pos, ch) == [i \in 1..n |-> IF i = pos THEN ch ELSE BasePattern[((i - 1) % 3) + 1]]

SerialInputs ==
    {l \o Body(n, pos, ch) \o r :
        l \in Pads(MaxPad), r \in Pads(MaxPad), n \in 0..MaxLen, pos \in 0..MaxLen, ch \in SubstChars}

InitSerial ==
    /\ MainIdle
    /\ fn_pc = "called" /\ fn_in \in SerialInputs /\ fn_out = None

CallIsValidSerial ==
    /\ fn_pc = "called"
    /\ fn_out' = is_valid_serial(fn_in)
    /\ fn_pc' = "returned"
    /\ UNCHANGED <<fn_in, mainVars>>

NextSerial == CallIsValidSerial

SpecSerial == InitSerial /\ [][NextSerial]_vars

\* Concatenations of at most n table keys.
RECURSIVE KeywordTokens(_)
KeywordTokens(n) ==
    IF n = 0 THEN {<<>>}
    ELSE KeywordTokens(n - 1) \cup
         {t \o DESTINATION_MAPPING[i][1] : t \in KeywordTokens(n - 1), i \in DOMAIN DESTINATION_MAPPING}


ResolveInputs ==
    {lead \o <<sep>> \o pre \o t \o post \o tail :
        lead \in {<<>>, S_AB12345678},
        sep \in {"_", "-"},
        pre \in {<<>>, <<"x">>, <<" ">>},
        t \in KeywordTokens(MaxKeywords) \cup {S_Unknown, S_misc},
        post \in {<<>>, <<"y">>},
        tail \in {<<>>, S_jpg, <<"_">> \o S_IMG01 \o S_jpg}}
    \cup {S_AB12345678, S_AB12345678 \o S_jpg, K_Misc \o S_jpg, K_QI, <<>>,
          S_AB12345678 \o <<"_">> \o S_Unknown \o <<"_">> \o S_part \o S_jpg,
          S_AB12345678 \o <<"_">> \o S_Unknown \o <<"_">> \o K_QI \o S_jpg}

InitResolve ==
    /\ MainIdle
    /\ fn_pc = "called" /\ fn_in \in ResolveInputs /\ fn_out = "none"

CallExtractDestination ==
    /\ fn_pc = "called"
    /\ fn_out' = extract_destination_from_filename(fn_in)
    /\ fn_pc' = "returned"
    /\ UNCHANGED <<fn_in, mainVars>>

NextResolve == CallExtractDestination

SpecResolve == InitResolve /\ [][NextResolve]_vars

S_name_ext == <<"n", "a", "m", "e", ".", "e", "x", "t">>
S_name_1_ext == <<"n", "a", "m", "e", "_", "1", ".", "e", "x", "t">>
S_name_2_ext == <<"n", "a", "m", "e", "_", "2", ".", "e", "x", "t">>
S_bashrc == <<".", "b", "a", "s", "h", "r", "c">>
S_a_b_c == <<"a", ".", "b", ".", "c">>

UniqueNames == {S_name_ext, S_bashrc, S_a_b_c, S_AB12345678, F_Example}
UniqueFolder == <<Slice(S_AB12345678, PREFIX_LENGTH), S_AB12345678, DEFAULT_DESTINATION>>

\* name with _k put before its extension, written out for k < 100.
Suffixed(name, k) ==
    LET dots == {i \in DOMAIN name : name[i] = "." /\ \E j \in 1..(i - 1) : name[j] # "."}
        cut == IF dots = {} THEN Len(name) + 1
               ELSE CHOOSE i \in dots : \A j \in dots : j <= i
        num == IF k < 10 THEN <<Digits[k + 1]>>
               ELSE <<Digits[(k \div 10) + 1], Digits[(k % 10) + 1]>>
    IN  SubSeq(name, 1, cut - 1) \o <<"_">> \o num \o SubSeq(name, cut, Len(name))

InitUnique ==
    /\ MainIdle
    /\ fn_pc = "called"
    /\ \E name \in UniqueNames :
       \E taken \in SUBSET (0..MaxSuffix) :
           fn_in = [folder |-> UniqueFolder,
                    filename |-> name,
                    exists |-> {path_join(UniqueFolder, IF k = 0 THEN name ELSE Suffixed(name, k)) :
                                    k \in taken}]
    /\ fn_out = <<>>

CallGetUniqueFilename ==
    /\ fn_pc = "called"
    /\ fn_out' = get_unique_filename(fn_in.exists, fn_in.folder, fn_in.filename)
    /\ fn_pc' = "returned"
    /\ UNCHANGED <<fn_in, mainVars>>

NextUnique == CallGetUniqueFilename

SpecUnique == InitUnique /\ [][NextUnique]_vars

(***************************************************************************)
(* Vocabulary of the properties, stated without the code's algorithms.     *)
(***************************************************************************)
\* s without its leading and trailing whitespace: from its first to its last
\* character that is not whitespace.
Trimmed(s) ==
    LET inked == {i \in DOMAIN s : ~IsSpaceChar(s[i])}
    IN  IF inked = {} THEN <<>>
        ELSE SubSeq(s, CHOOSE i \in inked : \A j \in inked : i <= j,
                       CHOOSE i \in inked : \A j \in inked : j <= i)

AllAlnum(s) == \A i \in DOMAIN s : IsAlnumChar(s[i])

SeparatorPositions(s) == {i \in DOMAIN s : s[i] \in {"_", "-"}}
Least(S) == CHOOSE i \in S : \A j \in S : i <= j

\* The text before the first '_' or '-' (the whole name when there is none).
LeadingToken(s) ==
    IF SeparatorPositions(s) = {} THEN s
    ELSE SubSeq(s, 1, Least(SeparatorPositions(s)) - 1)

HasSecondToken(s) == SeparatorPositions(s) # {}

\* The text between the first separator and the next one (or the end).
SecondToken(s) ==
    LET a == Least(SeparatorPositions(s))
        later == {i \in SeparatorPositions(s) : i > a}
        b == IF later = {} THEN Len(s) + 1 ELSE Least(later)
    IN  SubSeq(s, a + 1, b - 1)

\* Indices of the table entries whose key occurs in the token.
KeyHits(token) ==
    {i \in DOMAIN DESTINATION_MAPPING :
        \E a \in 1..(Len(token) - Len(DESTINATION_MAPPING[i][1]) + 1) :
            SubSeq(token, a, a + Len(DESTINATION_MAPPING[i][1]) - 1) = DESTINATION_MAPPING[i][1]}

NamesIn(paths) == {p[Len(p)] : p \in paths}

\* The serial a filename stands for: its leading token, trimmed and uppercased.
NormalSerialOf(filename) == str_upper(Trimmed(LeadingToken(filename)))

WellFormedSerial(c) == Len(c) = 10 /\ AllAlnum(c)

\* The leading token validates and its first 6 characters are registered.
Accepted(filename) ==
    /\ WellFormedSerial(NormalSerialOf(filename))
    /\ SubSeq(NormalSerialOf(filename), 1, 6) \in Range(valid_prefixes)

\* The category the keyword table gives a filename.
TableCategory(filename) ==
    IF HasSecondToken(filename) /\ KeyHits(SecondToken(filename)) # {}
    THEN DESTINATION_MAPPING[Least(KeyHits(SecondToken(filename)))][2]
    ELSE "6__Misc"

FileEntry(filename) == [name |-> filename, kind |-> "file"]

\* The latest iteration left the destination tree as it was.
DestinationUntouched == dest_dirs = last.before.dirs /\ dest_files = last.before.files

CountedSkipped ==
    /\ skipped_count = last.before.skipped_count + 1
    /\ moved_count = last.before.moved_count

CountedMoved ==
    /\ moved_count = last.before.moved_count + 1
    /\ skipped_count = last.before.skipped_count

(***************************************************************************)
(* Properties of the pure functions.                                       *)
(***************************************************************************)
\* C6: extract_destination_from_filename returns the category of the first
\* table entry, in table order, whose key is a substring of the second
\* separator-split token, and 6__Misc when there is no second token or no
\* key occurs in it (AB12345678_Unknown_part.jpg gives 6__Misc).
C6_FirstKeyInTableOrderWins ==
    fn_pc = "returned" =>
        /\ ~HasSecondToken(fn_in) => fn_out = "6__Misc"
        /\ (HasSecondToken(fn_in) /\ KeyHits(SecondToken(fn_in)) = {}) => fn_out = "6__Misc"
        /\ (HasSecondToken(fn_in) /\ KeyHits(SecondToken(fn_in)) # {}) =>
               fn_out = DESTINATION_MAPPING[Least(KeyHits(SecondToken(fn_in)))][2]
        /\ fn_in = S_AB12345678 \o <<"_">> \o S_Unknown \o <<"_">> \o S_part \o S_jpg =>
               fn_out = "6__Misc"

\* C6 case: a second token holding Misc before QI resolves to QI, the earlier table entry.
C6_Witness ==
    /\ fn_pc = "returned"
    /\ HasSecondToken(fn_in)
    /\ SecondToken(fn_in) = K_Misc \o K_QI
    /\ fn_out = "0__QI"

\* C7: get_unique_filename returns folder/filename when that path does not
\* exist, otherwise folder/<base>_<k><ext> for the smallest k >= 1 whose path
\* does not exist; the returned path never exists.
C7_SmallestFreeSuffix ==
    fn_pc = "returned" =>
        LET cand(k) == path_join(fn_in.folder,
                                 IF k = 0 THEN fn_in.filename ELSE Suffixed(fn_in.filename, k))
        IN  /\ fn_out \notin fn_in.exists
            /\ cand(0) \notin fn_in.exists => fn_out = cand(0)
            /\ cand(0) \in fn_in.exists =>
                   \E k \in 1..(MaxSuffix + 1) :
                       /\ fn_out = cand(k)
                       /\ \A j \in 1..(k - 1) : cand(j) \in fn_in.exists
            /\ (fn_in.filename = S_name_ext /\ NamesIn(fn_in.exists) = {S_name_ext}) =>
                   fn_out = path_join(fn_in.folder, S_name_1_ext)
            /\ (fn_in.filename = S_name_ext /\ NamesIn(fn_in.exists) = {S_name_ext, S_name_1_ext}) =>
                   fn_out = path_join(fn_in.folder, S_name_2_ext)

\* C7 case: name.ext and name_1.ext are present and name_2.ext is returned.
C7_Witness ==
    /\ fn_pc = "returned"
    /\ fn_in.filename = S_name_ext
    /\ NamesIn(fn_in.exists) = {S_name_ext, S_name_1_ext}
    /\ fn_out = path_join(fn_in.folder, S_name_2_ext)

\* C8 as stated: every string of length other than 10, or holding a
\* non-alphanumeric character, is rejected.
C8_AsStated ==
    (fn_pc = "returned" /\ (Len(fn_in) # 10 \/ ~AllAlnum(fn_in))) => fn_out = None

\* C8 amended: every string whose trimmed, uppercased form has a length other
\* than 10 or holds a non-alphanumeric character is rejected.
C8_RejectsByCleanedForm ==
    fn_pc = "returned" =>
        LET cleaned == str_upper(Trimmed(fn_in))
        IN  (Len(cleaned) # 10 \/ ~AllAlnum(cleaned)) => fn_out = None

\* C8 case: ten characters after trimming, one of them punctuation, rejected.
C8_Witness ==
    /\ fn_pc = "returned"
    /\ Len(Trimmed(fn_in)) = 10
    /\ \E i \in DOMAIN fn_in : fn_in[i] = "!"
    /\ fn_out = None

\* C9: an accepted string yields its trimmed, uppercased form, which has
\* exactly 10 alphanumeric characters and is a fixed point of validation.
C9_AcceptedIsNormalFixedPoint ==
    (fn_pc = "returned" /\ fn_out # None) =>
        /\ fn_out = str_upper(Trimmed(fn_in))
        /\ Len(fn_out) = 10
        /\ AllAlnum(fn_out)
        /\ \A i \in DOMAIN fn_out : fn_out[i] \notin Range(LowerLetters) \cup {"ß"}
        /\ is_valid_serial(fn_out) = fn_out

\* C9 case: a padded, lower-case input is accepted and comes back changed.
C9_Witness ==
    /\ fn_pc = "returned"
    /\ fn_out # None
    /\ Len(fn_in) > 10
    /\ \E i \in DOMAIN fn_in : fn_in[i] \in Range(LowerLetters)
    /\ fn_out # fn_in

(***************************************************************************)
(* Properties of the batch run.                                            *)
(***************************************************************************)
\* C1: a source file is relocated only if its leading token validates as a
\* 10-character alphanumeric serial whose first 6 characters are in the loaded
\* registry; every other file adds one to the skipped counter, leaves the moved
\* counter alone, never reaches move_file and stays at its source path.
C1_OnlyAcceptedFilesAreRelocated ==
    /\ \A e \in start.source \ source : Accepted(e.name)
    /\ (last.kind = "file" /\ ~Accepted(last.filename)) =>
           /\ CountedSkipped
           /\ ~last.called
           /\ FileEntry(last.filename) \in source
           /\ DestinationUntouched

\* C1 case: after one file was relocated, the next one is refused for its prefix.
C1_Witness ==
    /\ last.kind = "file"
    /\ last.outcome = "invalid_prefix"
    /\ ~Accepted(last.filename)
    /\ moved_count = 1

\* C2: a relocated file ends at <prefix>/<serial>/<category>/<name> under the
\* destination root: serial the trimmed, uppercased leading token, prefix its
\* first 6 characters, category the resolved or selected one, name the filename
\* or the filename with a _k suffix; the example file ends at
\* AB1234/AB12345678/5__Final Outgoing/AB12345678_FinalOutgoing_IMG01.jpg.
C2_RelocatedFileIsAtItsRoute ==
    last.outcome = "moved" =>
        LET serial == NormalSerialOf(last.filename)
            category == IF variant = "inferred" THEN TableCategory(last.filename)
                        ELSE destination_subfolder
        IN  /\ last.dest_path \in dest_files
            /\ last.dest_path \notin last.before.files
            /\ Len(last.dest_path) = 4
            /\ last.dest_path[1] = SubSeq(serial, 1, 6)
            /\ last.dest_path[2] = serial
            /\ last.dest_path[3] = category
            /\ \/ last.dest_path[4] = last.filename
               \/ \E k \in 1..(MaxSuffix + 1) : last.dest_path[4] = Suffixed(last.filename, k)
            /\ variant = "explicit" => category \in Range(DESTINATION_OPTIONS)
            /\ (last.filename = F_Example /\ variant = "inferred" /\ last.before.files = {}) =>
                   last.dest_path = <<P_AB1234, S_AB12345678, "5__Final Outgoing", F_Example>>

\* C2 case: the padded lower-case name with dashes is routed by its cleaned serial.
C2_Witness ==
    /\ last.outcome = "moved"
    /\ variant = "inferred"
    /\ last.filename = F_LowerDash
    /\ last.dest_path = <<P_AB1234, S_AB12345678, "0__QI", F_LowerDash>>

\* C3 as stated: a call of move_file either relocates the file (counted as
\* moved) or leaves the file at its source path and the filesystem as it was
\* before the call (counted as skipped).
C3_AsStated ==
    last.called =>
        \/ /\ last.outcome = "moved"
           /\ CountedMoved
           /\ last.dest_path \in dest_files
           /\ FileEntry(last.filename) \notin source
        \/ /\ last.outcome # "moved"
           /\ CountedSkipped
           /\ FileEntry(last.filename) \in source
           /\ DestinationUntouched

\* C3 amended: a call of move_file either relocates the file to a path that did
\* not exist before (counted as moved), or leaves the file at its source path
\* (counted as skipped); nothing that existed under the destination root is
\* removed, and a failed call may leave behind directories it created and a
\* copy of the file at the path it had chosen.
C3_MovedOrStillAtSource ==
    last.called =>
        /\ last.before.dirs \subseteq dest_dirs
        /\ last.before.files \subseteq dest_files
        /\ \/ /\ last.outcome = "moved"
              /\ CountedMoved
              /\ last.dest_path \in dest_files \ last.before.files
              /\ FileEntry(last.filename) \notin source
              /\ dest_files = last.before.files \cup {last.dest_path}
           \/ /\ last.outcome # "moved"
              /\ CountedSkipped
              /\ FileEntry(last.filename) \in source
              /\ source = last.before.source
              /\ dest_files \subseteq last.before.files \cup {last.dest_path}
              /\ \A d \in dest_dirs \ last.before.dirs :
                     d \in PathPrefixes(target_folder_of(last.serial, last.category), 3)

\* C3 case: the target directories were created and then the relocation failed.
C3_Witness ==
    /\ last.called
    /\ last.outcome = "move_failed"
    /\ dest_dirs # last.before.dirs
    /\ FileEntry(last.filename) \in source

\* C4: a run that ends early (prefix file missing or empty, source folder
\* setup failure, 'q' at the prompt) ends before the loop: no source file has
\* been relocated and nothing has been created under the destination root.
C4_EarlyExitTouchesNothing ==
    pc = "Aborted" =>
        /\ source = start.source
        /\ dest_dirs = start.dirs
        /\ dest_files = start.files
        /\ moved_count = 0 /\ skipped_count = 0 /\ total_files_processed = 0
        /\ last = NoLast
        /\ exit_code \in {0, 1}

\* C4 case: the user quits at the prompt while files wait in the source folder.
C4_Witness ==
    /\ pc = "Aborted"
    /\ exit_code = 0
    /\ start.source # {}
    /\ valid_prefixes # <<>>

\* C5: a failure to create the target directory or to relocate a file skips
\* that file (skipped +1, moved unchanged), logs a warning, lets no exception
\* leave move_file, and the loop goes on with the remaining files; a run that
\* reaches the summary has handled every regular file.
C5_FailureSkipsOneFileAndLoopGoesOn ==
    /\ [][(listing # <<>> /\ listing' = Tail(listing)
              /\ last'.outcome \in {"mkdir_failed", "move_failed"}) =>
             /\ skipped_count' = skipped_count + 1
             /\ moved_count' = moved_count
             /\ total_files_processed' = total_files_processed + 1
             /\ Len(log') > Len(log)
             /\ log'[Len(log')] \in {"warn_mkdir", "warn_move"}
             /\ source' = source
             /\ pc' = "PerFile"]_vars
    /\ [](pc # "Crashed")
    /\ [](pc = "Done" =>
             /\ total_files_processed = Cardinality({e \in start.source : e.kind = "file"})
             /\ "summary" \in Range(log))

\* C5 case: a directory creation failed, a later file was relocated, and the
\* summary was reached.
C5_Witness ==
    /\ pc = "Done"
    /\ \E i, j \in DOMAIN log : i < j /\ log[i] = "warn_mkdir" /\ log[j] = "moved"

\* C10 as stated: a filename without '_' and '-' gives an empty leading token
\* and is always skipped as an invalid serial.
C10_AsStated ==
    (last.kind = "file" /\ SeparatorPositions(last.filename) = {}) =>
        /\ last.extracted = <<>>
        /\ last.outcome = "invalid_serial"
        /\ FileEntry(last.filename) \in source

\* C10 amended: a filename without '_' and '-' is its own leading token; it is
\* skipped as an invalid serial unless the whole name, trimmed and uppercased,
\* is a 10-character alphanumeric serial (so never when it has an extension),
\* and it is relocated only if that serial's prefix is registered.
C10_NameWithoutSeparatorIsItsOwnToken ==
    (last.kind = "file" /\ SeparatorPositions(last.filename) = {}) =>
        /\ last.extracted = last.filename
        /\ last.outcome = "invalid_serial" <=>
               ~WellFormedSerial(str_upper(Trimmed(last.filename)))
        /\ (\E i \in DOMAIN last.filename : last.filename[i] = ".") =>
               (last.outcome = "invalid_serial" /\ FileEntry(last.filename) \in source)
        /\ last.outcome = "moved" => Accepted(last.filename)
        /\ last.called <=> Accepted(last.filename)

\* C10 case: a name with an extension and no separator is skipped although its
\* first ten characters are a registered serial.
C10_Witness ==
    /\ last.kind = "file"
    /\ SeparatorPositions(last.filename) = {}
    /\ last.filename = F_NoSepExt
    /\ last.outcome = "invalid_serial"
    /\ P_AB1234 \in Range(valid_prefixes)

(***************************************************************************)
(* Termination and the order of the states of a run.                       *)
(***************************************************************************)
\* The steps of pc that the state order allows; the inferred variant has no
\* DestinationSelected, the exits before the loop go to Aborted, and the
\* explicit variant leaves with an exception where it reads the console and the
\* console input has ended.
StateOrder ==
    {<<"Init", "PrefixLoaded">>, <<"Scanning", "PerFile">>,
     <<"PerFile", "Summarizing">>, <<"Summarizing", "Done">>, <<"Init", "Aborted">>}
    \cup (IF variant = "inferred"
          THEN {<<"PrefixLoaded", "Scanning">>, <<"PrefixLoaded", "Aborted">>}
          ELSE {<<"PrefixLoaded", "DestinationSelected">>, <<"PrefixLoaded", "Aborted">>,
                <<"DestinationSelected", "Scanning">>, <<"DestinationSelected", "Aborted">>,
                <<"PrefixLoaded", "Exception">>, <<"DestinationSelected", "Exception">>,
                <<"Done", "Exception">>})

RegularFiles(entries) == {e \in entries : e.kind = "file"}

NoDuplicates(q) == \A i, j \in DOMAIN q : q[i] = q[j] => i = j

\* main() waits for Enter after the destination was selected.
WaitsForEnter == variant = "explicit" /\ pc = "DestinationSelected" /\ ~confirmed

\* C11 as stated: every run in which the user answers the selection prompt with
\* a listed key or 'q' in the end reaches Done or Aborted.
C11_AsStated == <>(pc \in {"Done", "Aborted"})

\* C11 amended: a run reaches Done or Aborted unless it waits for ever for the
\* Enter that the explicit variant asks for after the selection, or the console
\* input ends at the selection prompt or at that Enter; once the source folder
\* is set up the loop visits each listed entry once, counts each regular file
\* once, and the run reaches Done, which the state order lets it do through
\* Summarizing only; pc only moves along
\* Init -> PrefixLoaded -> (DestinationSelected) -> Scanning -> PerFile ->
\* Summarizing -> Done, to Aborted before the loop, or from a console read of
\* the explicit variant to Exception; the inferred variant, which reads no
\* console, has exited with code 0 whenever it is Done.
C11_RunTerminatesOnceEnterIsPressed ==
    /\ <>[]WaitsForEnter \/ <>(pc = "Exception") \/ <>(pc \in {"Done", "Aborted"})
    /\ [](pc = "Exception" => variant = "explicit" /\ exit_code = 1)
    /\ []((pc = "Done" /\ variant = "inferred") => exit_code = 0)
    /\ [](pc \in {"Scanning", "PerFile", "Summarizing"} => <>(pc = "Done"))
    /\ [][pc' # pc => <<pc, pc'>> \in StateOrder]_vars
    /\ [][(pc = "PerFile" /\ pc' = "PerFile") =>
            /\ listing # <<>> /\ listing' = Tail(listing)
            /\ last'.filename = Head(listing)
            /\ total_files_processed' =
                   total_files_processed + (IF IsFile(Head(listing)) THEN 1 ELSE 0)]_vars
    /\ [](pc = "PerFile" => NoDuplicates(listing))
    /\ [](pc \in {"Summarizing", "Done"} =>
             /\ listing = <<>>
             /\ total_files_processed = Cardinality(RegularFiles(start.source)))

\* C11 case: the explicit variant, after an answered prompt and Enter, has walked a source
\* folder of two regular files, one of them relocated under a fresh name found
\* by get_unique_filename, and is Done.
C11_Witness ==
    /\ pc = "Done" /\ exit_code = 0
    /\ variant = "explicit" /\ confirmed
    /\ total_files_processed = 2
    /\ last.outcome = "moved"
    /\ last.dest_path \notin start.files
    /\ last.dest_path[Len(last.dest_path)] # last.filename

(***************************************************************************)
(* The counters and the tally of a run.                                    *)
(***************************************************************************)
\* How many messages of the log are of one of the kinds.
CountLog(kinds) == Cardinality({i \in DOMAIN log : log[i] \in kinds})

RECURSIVE SumOver(_, _)
SumOver(f, keys) ==
    IF keys = {} THEN 0
    ELSE LET k == CHOOSE x \in keys : TRUE IN f[k] + SumOver(f, keys \ {k})

\* The sum of the values of the tally map.
TallySum == SumOver(tally, DOMAIN tally)

ValidationWarnings == {"warn_invalid_serial", "warn_invalid_prefix"}
TransferWarnings == {"warn_mkdir", "warn_move"}

\* C12: at every point of a run total_files_processed = moved_count +
\* skipped_count; a loop iteration on a regular file adds one to exactly one of
\* the two counters (skipped for a validation failure, a directory-creation
\* failure or a move failure, moved for a success) and an entry that is not a
\* regular file adds nothing; when the source folder is empty the three
\* counters and the average time are 0 at summary time.
C12_ProcessedIsMovedPlusSkipped ==
    /\ total_files_processed = moved_count + skipped_count
    /\ last.kind = "file" =>
          /\ last.outcome \in {"invalid_serial", "invalid_prefix", "mkdir_failed",
                                "move_failed", "moved"}
          /\ moved_count = last.before.moved_count
                               + (IF last.outcome = "moved" THEN 1 ELSE 0)
          /\ skipped_count = last.before.skipped_count
                               + (IF last.outcome = "moved" THEN 0 ELSE 1)
    /\ last.kind = "dir" =>
          /\ moved_count = last.before.moved_count
          /\ skipped_count = last.before.skipped_count
    /\ (pc = "Summarizing" /\ start.source = {}) =>
          total_files_processed = 0 /\ moved_count = 0 /\ skipped_count = 0
    /\ ("summary" \in Range(log) /\ start.source = {}) =>
          /\ total_files_processed = 0 /\ moved_count = 0 /\ skipped_count = 0
          /\ average_time = <<0, 1>>
    /\ ("summary" \in Range(log) /\ total_files_processed > 0) =>
          \E elapsed \in ElapsedTimes :
              average_time[1] * total_files_processed = elapsed * average_time[2]
    /\ ("summary" \in Range(log)) <=> (average_time # <<>>)

\* C12 case: a run of two regular files is Done, one was relocated and the
\* move of the other failed.
C12_Witness ==
    /\ pc = "Done"
    /\ total_files_processed = 2 /\ moved_count = 1 /\ skipped_count = 1
    /\ last.outcome = "move_failed"
    /\ average_time = <<125, 1>>

\* C13 as stated: after the run the destination files are those of before the
\* run plus exactly moved_count new paths.
C13_AsStated ==
    pc = "Done" =>
        /\ start.files \subseteq dest_files
        /\ Cardinality(dest_files \ start.files) = moved_count

\* C13 amended: no file under the destination root is removed or overwritten,
\* every relocated file gets a path that did not exist, so no two relocated
\* files share a path; the destination files are those of before the run plus
\* one new path per relocated file, plus at most one per failed move (the copy
\* that a move leaves when it fails after copying): exactly moved_count new
\* paths when no move failed.
C13_NothingOverwrittenNewPathPerMove ==
    /\ start.files \subseteq dest_files
    /\ last.before.files \subseteq dest_files
    /\ last.outcome = "moved" =>
          /\ last.dest_path \notin last.before.files
          /\ last.dest_path \notin last.before.dirs
          /\ dest_files = last.before.files \cup {last.dest_path}
    /\ last.outcome = "move_failed" =>
          /\ last.dest_path \notin last.before.files
          /\ dest_files \in {last.before.files, last.before.files \cup {last.dest_path}}
    /\ last.outcome \notin {"moved", "move_failed"} =>
          (last.kind # "none" => dest_files = last.before.files)
    /\ Cardinality(dest_files \ start.files) >= moved_count
    /\ Cardinality(dest_files \ start.files) <= moved_count + CountLog({"warn_move"})
    /\ CountLog({"moved"}) = moved_count

\* C13 case: the run is Done; a file was relocated beside an older file of the
\* same name, under a suffixed name, and the older file is still there.
C13_Witness ==
    /\ pc = "Done"
    /\ last.outcome = "moved"
    /\ last.dest_path[Len(last.dest_path)] # last.filename
    /\ SubSeq(last.dest_path, 1, 3) \o <<last.filename>> \in start.files
    /\ SubSeq(last.dest_path, 1, 3) \o <<last.filename>> \in dest_files
    /\ Cardinality(dest_files \ start.files) = moved_count

\* C14: the tally map counts every file that passed validation, whether or not
\* it was then relocated: the sum of its values is total_files_processed less
\* the validation skips, which is moved_count plus the failed directory
\* creations and failed moves, so it equals moved_count exactly when none
\* failed; its keys are categories in the inferred variant and serial prefixes
\* in the explicit variant.
C14_TallyCountsValidatedFiles ==
    /\ TallySum = total_files_processed - CountLog(ValidationWarnings)
    /\ TallySum = moved_count + CountLog(TransferWarnings)
    /\ (TallySum = moved_count) <=> (CountLog(TransferWarnings) = 0)
    /\ last.called =>
          /\ (IF variant = "inferred" THEN last.category
               ELSE Slice(last.serial, PREFIX_LENGTH)) \in DOMAIN tally
    /\ variant = "inferred" =>
          DOMAIN tally \subseteq {DESTINATION_MAPPING[i][2] : i \in DOMAIN DESTINATION_MAPPING}
                                 \cup {DEFAULT_DESTINATION}
    /\ variant = "explicit" => DOMAIN tally \subseteq Range(valid_prefixes)
    /\ ("breakdown" \in Range(log)) <=> ("summary" \in Range(log) /\ TallySum > 0)

\* C14 case: at summary time the tally holds two files of which only one was
\* relocated, the directory for the other could not be created.
C14_Witness ==
    /\ "summary" \in Range(log) /\ "breakdown" \in Range(log)
    /\ TallySum = 2
    /\ moved_count = 1
    /\ CountLog({"warn_mkdir"}) = 1
    /\ CountLog(ValidationWarnings) = 0

====
